---- MODULE Spec2Model ----
(***************************************************************************)
(* The SARSA agent of this repository: the value table (utils.ts, kept in  *)
(* src/unnamed/part_000), the policy set and the SARSA class (both in      *)
(* src/src/policies.ts), and the types (src/unnamed/part_001).             *)
(*                                                                         *)
(* JavaScript values are records [k, m, e, s]: k is the kind, a number is  *)
(* the exact decimal m / 10^e, and s is a text or the name of a function   *)
(* or object.  Arithmetic on numbers is exact decimal arithmetic: the      *)
(* rounding of IEEE doubles (a relative error of about 1e-16) is left out, *)
(* NaN and the conversions to number are kept.                             *)
(***************************************************************************)
EXTENDS Integers, Sequences, FiniteSets, TLC

VARIABLES
    heap,     \* the objects of the value tables, by address
    agents,   \* the SARSA instances: [config, weights (an address)]
    ret,      \* the last call and what it returned
    hist,     \* results of the update calls of agent 1, oldest first
    nOps      \* number of calls made so far

vars == <<heap, agents, ret, hist, nOps>>

----------------------------------------------------------------------------
(* JavaScript values *)

Num(m, e) == [k |-> "number", m |-> m, e |-> e, s |-> ""]
Whole(n) == Num(n, 0)
NaN == [k |-> "NaN", m |-> 0, e |-> 0, s |-> ""]
Undefined == [k |-> "undefined", m |-> 0, e |-> 0, s |-> ""]
Null == [k |-> "null", m |-> 0, e |-> 0, s |-> ""]
Str(t) == [k |-> "string", m |-> 0, e |-> 0, s |-> t]
Fn(name) == [k |-> "function", m |-> 0, e |-> 0, s |-> name]
ObjVal(name) == [k |-> "object", m |-> 0, e |-> 0, s |-> name]
Ref(a) == [k |-> "ref", m |-> a, e |-> 0, s |-> ""]

\* A plain record used as a state: fields is the sequence of [key, val] in
\* the order in which the record was built.
Rec(fields) == [k |-> "record", m |-> 0, e |-> 0, s |-> "", fields |-> fields]

RECURSIVE Pow10(_)
Pow10(n) == IF n = 0 THEN 1 ELSE 10 * Pow10(n - 1)

\* A decimal in lowest form: no trailing zero in the mantissa.
RECURSIVE Norm(_, _)
Norm(m, e) ==
    IF e > 0 /\ m % 10 = 0 THEN Norm(m \div 10, e - 1) ELSE Num(m, e)

Max(a, b) == IF a >= b THEN a ELSE b

\* ToNumber: null is 0; undefined, functions, objects and non-numeric texts
\* are NaN.
ToNumber(v) ==
    CASE v.k = "number" -> v
      [] v.k = "null" -> Whole(0)
      [] OTHER -> NaN

Add(x, y) ==
    LET a == ToNumber(x)
        b == ToNumber(y)
        E == Max(a.e, b.e)
    IN  IF a.k = "NaN" \/ b.k = "NaN" THEN NaN
        ELSE Norm(a.m * Pow10(E - a.e) + b.m * Pow10(E - b.e), E)

Mul(x, y) ==
    LET a == ToNumber(x)
        b == ToNumber(y)
    IN  IF a.k = "NaN" \/ b.k = "NaN" THEN NaN
        ELSE Norm(a.m * b.m, a.e + b.e)

Neg(x) == Mul(Whole(-1), x)
Sub(x, y) == Add(x, Neg(y))

\* x <= y and x > y of JavaScript: false when either side is NaN.
Leq(x, y) ==
    LET a == ToNumber(x)
        b == ToNumber(y)
        E == Max(a.e, b.e)
    IN  /\ a.k = "number" /\ b.k = "number"
        /\ a.m * Pow10(E - a.e) <= b.m * Pow10(E - b.e)

Gt(x, y) ==
    LET a == ToNumber(x)
        b == ToNumber(y)
        E == Max(a.e, b.e)
    IN  /\ a.k = "number" /\ b.k = "number"
        /\ a.m * Pow10(E - a.e) > b.m * Pow10(E - b.e)

Geq(x, y) == Leq(y, x)

\* Math.floor of a number that is not NaN.
Floor(x) == x.m \div Pow10(x.e)

\* typeof
TypeOf(v) ==
    CASE v.k \in {"number", "NaN"} -> "number"
      [] v.k = "undefined" -> "undefined"
      [] v.k = "string" -> "string"
      [] v.k = "function" -> "function"
      [] OTHER -> "object"

\* x ?? y
Nullish(v) == v.k \in {"undefined", "null"}

----------------------------------------------------------------------------
(* Objects.  An object of the value table is a function from its own keys  *)
(* to values; every object inherits the members of Object.prototype, of    *)
(* which the model keeps two: the function "constructor" and the accessor  *)
(* "__proto__".  An action-value mapping is a sequence of [key, val] in    *)
(* the order Object.keys lists it.                                         *)

MaxIndex == 3

ProtoKeys == {"constructor", "__proto__"}

ProtoMember(key) ==
    IF key = "constructor" THEN Fn("Object") ELSE ObjVal("Object.prototype")

EmptyObj == [x \in {} |-> Undefined]

\* obj[key]: own property first, then the prototype, else undefined.
PropGet(o, key) ==
    IF key \in DOMAIN o THEN o[key]
    ELSE IF key \in ProtoKeys THEN ProtoMember(key)
    ELSE Undefined

\* obj[key] = v, for the values a table holds (numbers and inner objects are
\* stored; a number assigned to __proto__ is swallowed by the accessor).
PropSet(o, key, v) ==
    IF key = "__proto__" /\ v.k # "ref" THEN o
    ELSE [x \in DOMAIN o \cup {key} |-> IF x = key THEN v ELSE o[x]]

\* key in obj
PropIn(o, key) == key \in DOMAIN o \/ key \in ProtoKeys

Truthy(v) == v.k \in {"ref", "object", "function"}
             \/ (v.k = "number" /\ v.m # 0)
             \/ (v.k = "string" /\ v.s # "")

\* A key that is an array index: such keys are listed first, ascending.
IsIndex(key) == \E i \in 0..MaxIndex : ToString(i) = key
IndexOf(key) == CHOOSE i \in 0..MaxIndex : ToString(i) = key

MapKeys(mp) == [i \in 1..Len(mp) |-> mp[i].key]
MapHas(mp, key) == \E i \in 1..Len(mp) : mp[i].key = key

\* Where a new key goes in the key order of an object.
InsertAt(mp, key) ==
    IF ~IsIndex(key) THEN Len(mp) + 1
    ELSE LET later == {i \in 1..Len(mp) :
                          \/ ~IsIndex(mp[i].key)
                          \/ IndexOf(mp[i].key) > IndexOf(key)}
         IN  IF later = {} THEN Len(mp) + 1
             ELSE CHOOSE i \in later : \A j \in later : i <= j

\* mapping[key] = v on an action-value mapping.
MapSet(mp, key, v) ==
    IF key = "__proto__" THEN mp
    ELSE IF MapHas(mp, key)
    THEN [i \in 1..Len(mp) |->
             IF mp[i].key = key THEN [key |-> key, val |-> v] ELSE mp[i]]
    ELSE LET p == InsertAt(mp, key)
         IN  SubSeq(mp, 1, p - 1) \o <<[key |-> key, val |-> v]>>
                 \o SubSeq(mp, p, Len(mp))

\* mapping[key]
MapGet(mp, key) ==
    IF MapHas(mp, key)
    THEN (CHOOSE en \in {mp[i] : i \in 1..Len(mp)} : en.key = key).val
    ELSE IF key \in ProtoKeys THEN ProtoMember(key)
    ELSE Undefined

----------------------------------------------------------------------------
(* Key encoding *)

\* JSON.stringify of a state: a number prints as its digits (NaN as null),
\* a text in quotes, a record as its fields in the order it holds them.
RECURSIVE JSONstringify(_)
RECURSIVE JSONfields(_)
JSONfields(fields) ==
    IF fields = <<>> THEN ""
    ELSE "\"" \o Head(fields).key \o "\":" \o JSONstringify(Head(fields).val)
             \o (IF Len(fields) > 1 THEN "," \o JSONfields(Tail(fields))
                 ELSE "")

JSONstringify(state) ==
    CASE state.k = "number" /\ state.e = 0 -> ToString(state.m)
      [] state.k = "number" /\ state.e > 0 ->
             ToString(state.m) \o "e-" \o ToString(state.e)
      [] state.k = "string" -> "\"" \o state.s \o "\""
      [] state.k = "record" -> "{" \o JSONfields(state.fields) \o "}"
      [] OTHER -> "null"

\* String(action)
StringOf(action) ==
    CASE action.k = "number" /\ action.e = 0 -> ToString(action.m)
      [] action.k = "number" /\ action.e > 0 ->
             ToString(action.m) \o "e-" \o ToString(action.e)
      [] action.k = "string" -> action.s
      [] OTHER -> action.k

\* What JSON.parse(JSON.stringify(v)) makes of a property value: a number
\* that is not finite becomes null.
JSONvalue(v) == IF v.k = "NaN" THEN Null ELSE v

\* JSON.stringify leaves out a property whose value is undefined or a function.
JSONkeeps(v) == v.k \notin {"undefined", "function"}

----------------------------------------------------------------------------
(* The value table (utils.ts) *)

\* cloneJSON of an action-value mapping.
RECURSIVE cloneJSONMap(_)
cloneJSONMap(mp) ==
    IF mp = <<>> THEN <<>>
    ELSE LET rest == cloneJSONMap(Tail(mp))
             en == Head(mp)
         IN  IF JSONkeeps(en.val)
             THEN <<[key |-> en.key, val |-> JSONvalue(en.val)]>> \o rest
             ELSE rest

\* setReward(weights, state, action, reward): the heap afterwards.
setReward(h, w, state, action, reward) ==
    LET stateKey == JSONstringify(state)
        cur == PropGet(h[w], stateKey)
        h1 == IF Truthy(cur) THEN h ELSE Append(h, EmptyObj)
        inner == IF Truthy(cur) THEN cur ELSE Ref(Len(h) + 1)
        h2 == [h1 EXCEPT ![w] = PropSet(h1[w], stateKey, inner)]
    IN  [h2 EXCEPT ![inner.m] = PropSet(h2[inner.m], StringOf(action), reward)]

\* The forEach of getRewards over the action list.
RECURSIVE getRewardsLoop(_, _, _, _)
getRewardsLoop(actions, actionList, defaultReward, result) ==
    IF actionList = <<>> THEN result
    ELSE LET actionKey == StringOf(Head(actionList))
             got == PropGet(actions, actionKey)
             v == IF Nullish(got) THEN defaultReward ELSE got
         IN  getRewardsLoop(actions, Tail(actionList), defaultReward,
                            MapSet(result, actionKey, v))

\* getRewards(weights, state, actionList, defaultReward)
getRewards(h, w, state, actionList, defaultReward) ==
    LET stateKey == JSONstringify(state)
        cur == PropGet(h[w], stateKey)
        actions == IF Truthy(cur) THEN h[cur.m] ELSE EmptyObj
    IN  getRewardsLoop(actions, actionList, defaultReward, <<>>)

\* sarsaResult with the old value kept whole: Q0 + alpha (r + gamma Q1).
sarsaResultKeepsOld(Qt0, Qt1, reward1, alpha, gamma) ==
    Add(Qt0, Mul(alpha, Add(reward1, Mul(gamma, Qt1))))

\* The value sarsaEquation computes.
sarsaResult(Qt0, Qt1, reward1, alpha, gamma) ==
    Add(Mul(Sub(Whole(1), alpha), Qt0), Mul(alpha, Add(reward1, Mul(gamma, Qt1))))

\* sarsaEquation with 0 for a pair with no entry, whatever defaultReward is.
sarsaEquationZeroDefault(h, w, state0, action0, reward1, state1, action1, alpha, gamma, defaultReward) ==
    LET Qt0 == MapGet(getRewards(h, w, state0, <<action0>>, Whole(0)),
                      StringOf(action0))
        Qt1 == MapGet(getRewards(h, w, state1, <<action1>>, Whole(0)),
                      StringOf(action1))
        result == sarsaResult(Qt0, Qt1, reward1, alpha, gamma)
    IN  [heap |-> setReward(h, w, state0, action0, result), val |-> result]

\* sarsaEquation: [heap, val], the heap afterwards and the value returned.
sarsaEquation(h, w, state0, action0, reward1, state1, action1, alpha, gamma, defaultReward) ==
    LET Qt0 == MapGet(getRewards(h, w, state0, <<action0>>, defaultReward),
                      StringOf(action0))
        Qt1 == MapGet(getRewards(h, w, state1, <<action1>>, defaultReward),
                      StringOf(action1))
        result == sarsaResult(Qt0, Qt1, reward1, alpha, gamma)
    IN  [heap |-> setReward(h, w, state0, action0, result), val |-> result]

----------------------------------------------------------------------------
(* The policy set (policies.ts).  A policy returns the set of results it   *)
(* can give: [err, val], err for a thrown error.  us is the sequence of    *)
(* values the successive calls of Math.random() return.                    *)

Thrown(msg) == [err |-> TRUE, val |-> Str(msg)]
Returned(v) == [err |-> FALSE, val |-> v]

\* The forEach of greedyPolicy: has is false while bestScore is -Infinity.
RECURSIVE greedyLoop(_, _)
greedyLoop(actions, best) ==
    IF actions = <<>> THEN best
    ELSE LET score == Head(actions).val
             better == IF best.has THEN Gt(score, best.score)
                       ELSE ToNumber(score).k = "number"
         IN  greedyLoop(Tail(actions),
                        IF better
                        THEN [has |-> TRUE, score |-> score,
                              action |-> Head(actions).key]
                        ELSE best)

greedyPolicy(actions, epsilon, us) ==
    IF Len(actions) = 0 THEN {Thrown("No actions available")}
    ELSE {Returned(Str(greedyLoop(actions,
              [has |-> FALSE, score |-> Undefined,
               action |-> actions[1].key]).action))}

\* randomPolicy without the check for an empty mapping: keys[0] is undefined.
randomPolicyNoCheck(actions, epsilon, us) ==
    IF Len(actions) = 0 THEN {Returned(Undefined)}
    ELSE {Returned(Str(actions[Floor(Mul(us[1], Whole(Len(actions)))) + 1].key))}

randomPolicy(actions, epsilon, us) ==
    IF Len(actions) = 0 THEN {Thrown("No actions available")}
    ELSE {Returned(Str(actions[Floor(Mul(us[1], Whole(Len(actions)))) + 1].key))}

epsilonGreedyPolicy(actions, epsilon, us) ==
    IF Leq(us[1], epsilon) THEN randomPolicy(actions, epsilon, Tail(us))
    ELSE greedyPolicy(actions, epsilon, Tail(us))

\* random <= 1 - epsilon + epsilon / numActions, with both sides multiplied
\* by numActions (which is positive here).
epsilonSoftPolicy(actions, epsilon, us) ==
    LET numActions == Whole(Len(actions))
    IN  IF Len(actions) = 0 THEN {Thrown("No actions available")}
        ELSE IF Leq(Mul(us[1], numActions),
                    Add(Sub(numActions, Mul(numActions, epsilon)), epsilon))
        THEN greedyPolicy(actions, epsilon, Tail(us))
        ELSE randomPolicy(actions, epsilon, Tail(us))

\* Math.exp(v) by its class: NaN, Infinity (overflow), zero (underflow) or a
\* positive finite number.
ExpOverflow == Whole(709)
ExpUnderflow == Whole(-745)

expClass(v) ==
    LET n == ToNumber(v)
    IN  IF n.k = "NaN" THEN "NaN"
        ELSE IF Gt(n, ExpOverflow) THEN "Infinity"
        ELSE IF Gt(ExpUnderflow, n) THEN "zero"
        ELSE "positive"

\* The class of probabilities[i] = values[i] / denominator.
probClass(actions, i) ==
    LET cls == [j \in 1..Len(actions) |-> expClass(actions[j].val)]
        den == IF \E j \in 1..Len(actions) : cls[j] = "NaN" THEN "NaN"
               ELSE IF \E j \in 1..Len(actions) : cls[j] = "Infinity"
               THEN "Infinity"
               ELSE IF \E j \in 1..Len(actions) : cls[j] = "positive"
               THEN "positive"
               ELSE "zero"
    IN  CASE den = "positive" -> cls[i]
          [] den = "Infinity" -> IF cls[i] = "Infinity" THEN "NaN" ELSE "zero"
          [] OTHER -> "NaN"

\* softmaxPolicy without the fallback: when the sampling loop selects nothing
\* the function runs off its end and returns undefined.
softmaxPolicyNoFallback(actions, epsilon, us) ==
    LET n == Len(actions)
        nans == {i \in 1..n : probClass(actions, i) = "NaN"}
        stop == IF nans = {} THEN n + 1
                ELSE CHOOSE i \in nans : \A j \in nans : i <= j
        hit == IF us[1] = Whole(0) THEN {i \in 1..n : i = 1 /\ i < stop}
               ELSE {i \in 1..n : i < stop /\ probClass(actions, i) = "positive"}
    IN  IF n = 0 THEN {Thrown("No actions available")}
        ELSE IF hit # {} THEN {Returned(Str(actions[i].key)) : i \in hit}
        ELSE {Returned(Undefined)}

\* The sampling loop stops adding at the first NaN probability: from there
\* on random <= cumulativeProb is false.  The draw 0 selects the first key
\* whatever its probability; a positive draw selects a key of positive
\* probability (which one depends on Math.exp: every such key is possible).
softmaxPolicy(actions, epsilon, us) ==
    LET n == Len(actions)
        nans == {i \in 1..n : probClass(actions, i) = "NaN"}
        stop == IF nans = {} THEN n + 1
                ELSE CHOOSE i \in nans : \A j \in nans : i <= j
        hit == IF us[1] = Whole(0) THEN {i \in 1..n : i = 1 /\ i < stop}
               ELSE {i \in 1..n : i < stop /\ probClass(actions, i) = "positive"}
    IN  IF n = 0 THEN {Thrown("No actions available")}
        ELSE IF hit # {} THEN {Returned(Str(actions[i].key)) : i \in hit}
        ELSE randomPolicy(actions, epsilon, Tail(us))

epsilonGreedySoftmaxPolicy(actions, epsilon, us) ==
    IF Geq(us[1], epsilon) THEN greedyPolicy(actions, epsilon, Tail(us))
    ELSE softmaxPolicy(actions, epsilon, Tail(us))

\* A caller's own policy function: this one returns the last key, and
\* undefined for an empty mapping.
customPolicy(actions, epsilon, us) ==
    IF Len(actions) = 0 THEN {Returned(Undefined)}
    ELSE {Returned(Str(actions[Len(actions)].key))}

\* The registry of built-in policies.
policies ==
    [name \in {"greedy", "epsilonGreedy", "epsilonSoft", "softmax",
               "epsilonGreedySoftmax", "random"} |-> Fn(name \o "Policy")]

\* this._config.policy(actions, epsilon): a call of whatever the
\* configuration holds.  Object(actions) returns its argument; a value that
\* is no function cannot be called.
callPolicy(policy, actions, epsilon, us) ==
    CASE policy = Fn("greedyPolicy") -> greedyPolicy(actions, epsilon, us)
      [] policy = Fn("randomPolicy") -> randomPolicy(actions, epsilon, us)
      [] policy = Fn("epsilonGreedyPolicy") ->
             epsilonGreedyPolicy(actions, epsilon, us)
      [] policy = Fn("epsilonSoftPolicy") ->
             epsilonSoftPolicy(actions, epsilon, us)
      [] policy = Fn("softmaxPolicy") -> softmaxPolicy(actions, epsilon, us)
      [] policy = Fn("epsilonGreedySoftmaxPolicy") ->
             epsilonGreedySoftmaxPolicy(actions, epsilon, us)
      [] policy = Fn("customPolicy") -> customPolicy(actions, epsilon, us)
      [] policy = Fn("Object") -> {Returned(ObjVal("actions"))}
      [] OTHER -> {Thrown("TypeError: policy is not a function")}

----------------------------------------------------------------------------
(* The SARSA class (sarsa.ts).  A configuration is a function from field   *)
(* names to values; a caller's partial configuration has a subset of the   *)
(* fields.                                                                 *)

DEFAULTS ==
    [alpha |-> Num(2, 1), gamma |-> Num(8, 1), defaultReward |-> Whole(0),
     epsilon |-> Num(1, 3), policy |-> Str("greedy")]

\* { ...a, ...b }
Spread(a, b) ==
    [f \in DOMAIN a \cup DOMAIN b |-> IF f \in DOMAIN b THEN b[f] ELSE a[f]]

resolveConfig(config) ==
    LET result == Spread(DEFAULTS, config)
        p == result["policy"]
    IN  IF TypeOf(p) = "string"
        THEN IF ~PropIn(policies, p.s)
             THEN [result EXCEPT !["policy"] = policies["greedy"]]
             ELSE [result EXCEPT !["policy"] = PropGet(policies, p.s)]
        ELSE IF TypeOf(p) # "function"
        THEN [result EXCEPT !["policy"] = policies["greedy"]]
        ELSE result

\* cloneJSON of a configuration: a function-valued field is left out, an
\* object prints as {}, a number that is not finite becomes null.
cloneJSONConfig(config) ==
    [f \in {g \in DOMAIN config : JSONkeeps(config[g])} |->
        IF config[f].k = "object" THEN ObjVal("{}") ELSE JSONvalue(config[f])]

\* A set as a sequence, in some fixed order.
RECURSIVE SetToSeq(_)
SetToSeq(S) ==
    IF S = {} THEN <<>>
    ELSE LET x == CHOOSE y \in S : TRUE IN <<x>> \o SetToSeq(S \ {x})

\* cloneJSON of one inner object of a table.
cloneJSONObj(o) ==
    [key \in {x \in DOMAIN o : JSONkeeps(o[x])} |-> JSONvalue(o[key])]

\* A copy of the top-level object only ({ ...weights }): the inner objects
\* stay shared with the original.
cloneShallowWeights(h, w) == h \o <<h[w]>>

\* cloneJSON(weights): the heap with the copy added, the copy's top-level
\* object at address Len(h) + 1 and its inner objects after it.
cloneJSONWeights(h, w) ==
    LET keys == SetToSeq(DOMAIN h[w])
        top == Len(h) + 1
        pos(key) == CHOOSE i \in 1..Len(keys) : keys[i] = key
    IN  h \o <<[key \in DOMAIN h[w] |-> Ref(top + pos(key))]>>
          \o [i \in 1..Len(keys) |-> cloneJSONObj(h[h[w][keys[i]].m])]

----------------------------------------------------------------------------
(* Calls.  Each action is one call of a method, and ret records it.        *)

NoRet ==
    [op |-> "none", ag |-> 0, s0 |-> Undefined, a0 |-> Undefined,
     r |-> Undefined, s1 |-> Undefined, a1 |-> Undefined, list |-> <<>>,
     cfg |-> EmptyObj, us |-> <<>>, err |-> FALSE, val |-> Undefined,
     map |-> <<>>, conf |-> EmptyObj]

\* createSARSA(cfg): the first agent, with an empty table at address 1.
Create(cfg) ==
    /\ heap = <<EmptyObj>>
    /\ agents = <<[config |-> resolveConfig(cfg), weights |-> 1]>>
    /\ ret = [NoRet EXCEPT !.op = "createSARSA", !.ag = 1, !.cfg = cfg]
    /\ hist = <<>>
    /\ nOps = 0

getConfig(ag) ==
    /\ ag \in 1..Len(agents)
    /\ ret' = [NoRet EXCEPT !.op = "getConfig", !.ag = ag,
                            !.conf = cloneJSONConfig(agents[ag].config)]
    /\ UNCHANGED <<heap, agents, hist, nOps>>

setConfig(ag, cfg) ==
    /\ ag \in 1..Len(agents)
    /\ agents' = [agents EXCEPT ![ag].config =
                      resolveConfig(Spread(agents[ag].config, cfg))]
    /\ ret' = [NoRet EXCEPT !.op = "setConfig", !.ag = ag, !.cfg = cfg]
    /\ nOps' = nOps + 1
    /\ UNCHANGED <<heap, hist>>

SARSAsetReward(ag, state, action, reward) ==
    /\ ag \in 1..Len(agents)
    /\ heap' = setReward(heap, agents[ag].weights, state, action, reward)
    /\ ret' = [NoRet EXCEPT !.op = "setReward", !.ag = ag, !.s0 = state,
                            !.a0 = action, !.r = reward]
    /\ nOps' = nOps + 1
    /\ UNCHANGED <<agents, hist>>

SARSAgetRewards(ag, state, actionList) ==
    /\ ag \in 1..Len(agents)
    /\ ret' = [NoRet EXCEPT !.op = "getRewards", !.ag = ag, !.s0 = state,
                            !.list = actionList,
                            !.map = cloneJSONMap(getRewards(heap,
                                        agents[ag].weights, state, actionList,
                                        agents[ag].config["defaultReward"]))]
    /\ UNCHANGED <<heap, agents, hist, nOps>>

update(ag, state0, action0, reward1, state1, action1) ==
    /\ ag \in 1..Len(agents)
    /\ LET c == agents[ag].config
           res == sarsaEquation(heap, agents[ag].weights, state0, action0,
                                reward1, state1, action1, c["alpha"],
                                c["gamma"], c["defaultReward"])
           call == [NoRet EXCEPT !.op = "update", !.ag = ag, !.s0 = state0,
                                 !.a0 = action0, !.r = reward1,
                                 !.s1 = state1, !.a1 = action1,
                                 !.val = res.val]
       IN  /\ heap' = res.heap
           /\ ret' = call
           /\ hist' = Append(hist, call)
    /\ nOps' = nOps + 1
    /\ UNCHANGED agents

chooseAction(ag, state, actionList, us) ==
    /\ ag \in 1..Len(agents)
    /\ LET c == agents[ag].config
           actions == getRewards(heap, agents[ag].weights, state, actionList,
                                 c["defaultReward"])
       IN  \E out \in callPolicy(c["policy"], actions, c["epsilon"], us) :
               ret' = [NoRet EXCEPT !.op = "chooseAction", !.ag = ag,
                                    !.s0 = state, !.list = actionList,
                                    !.us = us, !.err = out.err,
                                    !.val = out.val]
    /\ UNCHANGED <<heap, agents, hist, nOps>>

\* clone(): new SARSA(this._config), then the copy of the table.  (The empty
\* table the constructor makes is dropped at once and takes no address.)
clone(ag) ==
    /\ ag \in 1..Len(agents)
    /\ heap' = cloneJSONWeights(heap, agents[ag].weights)
    /\ agents' = Append(agents, [config |-> resolveConfig(agents[ag].config),
                                 weights |-> Len(heap) + 1])
    /\ ret' = [NoRet EXCEPT !.op = "clone", !.ag = ag,
                            !.val = Whole(Len(agents) + 1)]
    /\ nOps' = nOps + 1
    /\ UNCHANGED hist

\* The exported getRewards called on the table the weights getter hands out,
\* with a default of the caller's choice.
utilsGetRewards(ag, state, actionList, defaultReward) ==
    /\ ag \in 1..Len(agents)
    /\ ret' = [NoRet EXCEPT !.op = "utils.getRewards", !.ag = ag,
                            !.s0 = state, !.list = actionList,
                            !.r = defaultReward,
                            !.map = getRewards(heap, agents[ag].weights,
                                               state, actionList,
                                               defaultReward)]
    /\ UNCHANGED <<heap, agents, hist, nOps>>

----------------------------------------------------------------------------
(* What a specification reads of an agent *)

\* The own entry of (state, action) in an agent's table, or NoEntry.
NoEntry == [k |-> "none", m |-> 0, e |-> 0, s |-> ""]

Entry(h, w, state, action) ==
    LET stateKey == JSONstringify(state)
        actionKey == StringOf(action)
    IN  IF stateKey \in DOMAIN h[w]
           /\ actionKey \in DOMAIN h[h[w][stateKey].m]
        THEN h[h[w][stateKey].m][actionKey]
        ELSE NoEntry

\* The table of an agent as a value: state key -> action key -> value.
TableOf(h, w) == [stateKey \in DOMAIN h[w] |-> h[h[w][stateKey].m]]

\* All that the methods of an agent read: its configuration and its table.
View(ag) == [config |-> agents[ag].config,
             table |-> TableOf(heap, agents[ag].weights)]

----------------------------------------------------------------------------
(* Specification SpecUpdate: one agent, the update rule and reads of single *)
(* pairs.                                                                  *)

MaxUpdates == 3

TestConfig ==
    [alpha |-> Num(9, 1), gamma |-> Num(1, 1), defaultReward |-> Whole(-1)]

UpdateConfigs == {TestConfig, EmptyObj}
UpdateActions == {Str("up"), Str("down"), Str("constructor")}
UpdateRewards == {Whole(10)}

InitUpdate == \E cfg \in UpdateConfigs : Create(cfg)

NextUpdate ==
    \/ \E state0 \in {Whole(5), Whole(6)}, action0 \in UpdateActions,
          reward1 \in UpdateRewards, state1 \in {Whole(6), Whole(7)},
          action1 \in {Str("down")} :
          /\ Len(hist) < MaxUpdates
          /\ update(1, state0, action0, reward1, state1, action1)
    \/ \E state \in {Whole(5), Whole(6)}, action \in UpdateActions :
          SARSAgetRewards(1, state, <<action>>)

SpecUpdate == InitUpdate /\ [][NextUpdate]_vars

----------------------------------------------------------------------------
(* Claims about the update rule *)

\* The value the SARSA update is to give: (1 - alpha) Q0 + alpha (r + gamma Q1).
ClaimedValue(Q0, Q1, r, alpha, gamma) ==
    Add(Mul(Sub(Whole(1), alpha), Q0), Mul(alpha, Add(r, Mul(gamma, Q1))))

\* The value of a pair as the table stores it, the agent's defaultReward for
\* a pair with no entry.
StoredOrDefault(ag, state, action) ==
    LET en == Entry(heap, agents[ag].weights, state, action)
    IN  IF en = NoEntry THEN agents[ag].config["defaultReward"] ELSE en

\* The same, except that for a pair with no entry whose action label names an
\* inherited object member the read yields that member.
StoredOrInherited(ag, state, action) ==
    LET en == Entry(heap, agents[ag].weights, state, action)
    IN  IF en # NoEntry THEN en
        ELSE IF StringOf(action) \in ProtoKeys
        THEN ProtoMember(StringOf(action))
        ELSE agents[ag].config["defaultReward"]

IsCall(c, state0, action0, reward1, state1, action1) ==
    /\ c.op = "update" /\ c.ag = 1
    /\ c.s0 = state0 /\ c.a0 = action0 /\ c.r = reward1
    /\ c.s1 = state1 /\ c.a1 = action1

CallA(c) == IsCall(c, Whole(5), Str("up"), Whole(10), Whole(6), Str("down"))
CallB(c) == IsCall(c, Whole(6), Str("down"), Whole(10), Whole(7), Str("down"))

\* Agent 1 was made with alpha = 0.9, gamma = 0.1, defaultReward = -1 and all
\* the writes so far are the update calls of hist.
TestRun ==
    /\ agents[1].config["alpha"] = Num(9, 1)
    /\ agents[1].config["gamma"] = Num(1, 1)
    /\ agents[1].config["defaultReward"] = Whole(-1)
    /\ nOps = Len(hist)

\* The calls A, B, A of the test, as far as hist goes.
SeqABA(n) ==
    /\ TestRun /\ Len(hist) >= n
    /\ n >= 1 => CallA(hist[1])
    /\ n >= 2 => CallB(hist[2])
    /\ n >= 3 => CallA(hist[3])

\* The call A twice in a row.
SeqAA(n) ==
    /\ TestRun /\ Len(hist) >= n
    /\ n >= 1 => CallA(hist[1])
    /\ n >= 2 => CallA(hist[2])

\* A step that is an update call, and one that reads back the pair an update
\* call has just written.
UpdateStep == hist' # hist
ReadBackStep ==
    /\ ret.op = "update" /\ ret'.op = "getRewards" /\ ret'.ag = ret.ag
    /\ ret'.s0 = ret.s0 /\ ret'.list = <<ret.a0>>

\* C1 as stated: update returns the claimed value of the stored values (the
\* default for a pair never written), a read of the written pair directly
\* afterwards returns the same value, and the calls A, B, A on the test
\* agent return 8.99, 8.99 and 10.7081.
C1_AsStated ==
    /\ [][(UpdateStep =>
              ret'.val = ClaimedValue(
                  StoredOrDefault(ret'.ag, ret'.s0, ret'.a0),
                  StoredOrDefault(ret'.ag, ret'.s1, ret'.a1), ret'.r,
                  agents[ret'.ag].config["alpha"],
                  agents[ret'.ag].config["gamma"]))
          /\ (ReadBackStep =>
                 ret'.map = <<[key |-> StringOf(ret.a0), val |-> ret.val]>>)
         ]_vars
    /\ [](/\ SeqABA(1) => hist[1].val = Num(899, 2)
          /\ SeqABA(2) => hist[2].val = Num(899, 2)
          /\ SeqABA(3) => hist[3].val = Num(107081, 4))

\* C1 as amended: update returns the claimed value of what the table read
\* yields for the two pairs before the call (the stored value; for a pair
\* with no entry the default, or the inherited member when the label names
\* one, which makes the result NaN), a read of the written pair directly
\* afterwards returns the same value (null for NaN), and the calls A, B, A
\* on the test agent return 8.81, 8.81 and 10.6739.
C1_UpdateFormula ==
    /\ [][(UpdateStep =>
              ret'.val = ClaimedValue(
                  StoredOrInherited(ret'.ag, ret'.s0, ret'.a0),
                  StoredOrInherited(ret'.ag, ret'.s1, ret'.a1), ret'.r,
                  agents[ret'.ag].config["alpha"],
                  agents[ret'.ag].config["gamma"]))
          /\ (ReadBackStep =>
                 ret'.map = <<[key |-> StringOf(ret.a0),
                               val |-> IF ret.val = NaN THEN Null
                                       ELSE ret.val]>>)
         ]_vars
    /\ [](/\ SeqABA(1) => hist[1].val = Num(881, 2)
          /\ SeqABA(2) => hist[2].val = Num(881, 2)
          /\ SeqABA(3) => hist[3].val = Num(106739, 4))

\* The three calls of the test were made and the pair (5, up) was read back.
C1_Witness ==
    /\ SeqABA(3) /\ Len(hist) = 3
    /\ ret.op = "getRewards" /\ ret.s0 = Whole(5)
    /\ ret.map = <<[key |-> "up", val |-> Num(106739, 4)]>>

\* C10 as stated: on the test agent the call A returns 8.99 and the same call
\* made again directly afterwards returns 10.7081.
C10_AsStated ==
    /\ SeqAA(1) => hist[1].val = Num(899, 2)
    /\ SeqAA(2) => hist[2].val = Num(107081, 4)

\* C10 as amended: on the test agent the call A returns 8.81 and the same
\* call made again directly afterwards returns 9.791.
C10_TwoCalls ==
    /\ SeqAA(1) => hist[1].val = Num(881, 2)
    /\ SeqAA(2) => hist[2].val = Num(9791, 3)

C10_Witness == SeqAA(2) /\ Len(hist) = 2 /\ ret = hist[2]

----------------------------------------------------------------------------
(* Specification SpecTable: one agent, writes and reads of its table, by   *)
(* the methods and by the exported getRewards.                             *)

MaxWrites == 2

TableConfigs == {EmptyObj, [defaultReward |-> Whole(-100)]}
TableStates == {Whole(5), Whole(6)}
TableActions ==
    {Str("up"), Str("constructor"), Str("__proto__"), Whole(1), Whole(2)}
TableRewards == {Whole(1), NaN}
TableDefaults == {Whole(0), Whole(-100)}
TableLists ==
    {<<a>> : a \in TableActions}
        \cup {<<Str("up"), Str("constructor")>>, <<Whole(2), Whole(1)>>,
              <<Str("up"), Whole(1)>>}

InitTable == \E cfg \in TableConfigs : Create(cfg)

NextTable ==
    \/ \E state \in TableStates, action \in TableActions,
          reward \in TableRewards :
          /\ nOps < MaxWrites
          /\ SARSAsetReward(1, state, action, reward)
    \/ \E state \in TableStates, actionList \in TableLists :
          SARSAgetRewards(1, state, actionList)
    \/ \E state \in TableStates, actionList \in TableLists,
          defaultReward \in TableDefaults :
          utilsGetRewards(1, state, actionList, defaultReward)

SpecTable == InitTable /\ [][NextTable]_vars

\* The keys of an action list and the keys of a mapping, as sets.
ListKeys(actionList) == {StringOf(actionList[i]) : i \in 1..Len(actionList)}
KeySet(mp) == {mp[i].key : i \in 1..Len(mp)}

\* The default a read was made with.
DefaultOf(c) ==
    IF c.op = "utils.getRewards" THEN c.r
    ELSE agents[c.ag].config["defaultReward"]

IsRead(c) == c.op \in {"getRewards", "utils.getRewards"}

\* C3 as stated: a read of a table to which nothing was ever written returns
\* the mapping that gives the default to every action of the list.
C3_AsStated ==
    (ret.op = "utils.getRewards" /\ nOps = 0) =>
        /\ KeySet(ret.map) = ListKeys(ret.list)
        /\ \A i \in 1..Len(ret.map) : ret.map[i].val = ret.r

\* C4 as stated: a read of (s, [a]) made directly after setReward(s, a, r)
\* returns r for a, by the exported function and by the method alike, and an
\* action of the same state that was never written reads as the default.
C4_AsStated ==
    [][(/\ ret.op = "setReward" /\ IsRead(ret') /\ ret'.ag = ret.ag
        /\ ret'.s0 = ret.s0)
       => /\ ret'.list = <<ret.a0>> =>
                ret'.map = <<[key |-> StringOf(ret.a0), val |-> ret.r]>>
          /\ \A i \in 1..Len(ret'.list) :
                (nOps = 1 /\ ret'.list[i] # ret.a0) =>
                    \E j \in 1..Len(ret'.map) :
                        /\ ret'.map[j].key = StringOf(ret'.list[i])
                        /\ ret'.map[j].val = DefaultOf(ret')
      ]_vars

----------------------------------------------------------------------------
(* Specification SpecConfig: one agent, its configuration and the choice of *)
(* actions.                                                                *)

MaxConfigOps == 2

BuiltInNames ==
    {"greedy", "epsilonGreedy", "epsilonSoft", "softmax",
     "epsilonGreedySoftmax", "random"}

\* Values of the policy option: the six names, a name that is none of them,
\* names of inherited object members, a function of the caller, a number.
PolicyInputs ==
    {Str(name) : name \in BuiltInNames}
        \cup {Str("bogus"), Str("constructor"), Str("__proto__"),
              Fn("customPolicy"), Whole(42)}

ConfigInputs ==
    {EmptyObj, [alpha |-> Num(9, 1), gamma |-> Num(1, 1)],
     [alpha |-> Num(3, 1)], [defaultReward |-> Whole(-1), epsilon |-> Whole(0)],
     [epsilon |-> Num(5, 1)]}
        \cup {[policy |-> p] : p \in PolicyInputs}

ConfigLists ==
    {<<>>, <<Str("up"), Str("down")>>, <<Str("down"), Str("up")>>,
     <<Whole(2), Whole(1)>>, <<Str("up"), Whole(1)>>}

ConfigDraws ==
    {<<Whole(0), Whole(0), Whole(0)>>, <<Num(5, 1), Num(5, 1), Num(5, 1)>>}

InitConfig == \E cfg \in ConfigInputs : Create(cfg)

NextConfig ==
    \/ \E cfg \in ConfigInputs : nOps < MaxConfigOps /\ setConfig(1, cfg)
    \/ \E action \in {Str("down"), Whole(1)} :
          /\ nOps < MaxConfigOps
          /\ SARSAsetReward(1, Whole(5), action, Whole(5))
    \/ getConfig(1)
    \/ \E actionList \in ConfigLists, us \in ConfigDraws :
          chooseAction(1, Whole(5), actionList, us)

SpecConfig == InitConfig /\ [][NextConfig]_vars

Fields == {"alpha", "gamma", "defaultReward", "epsilon", "policy"}
NumberFields == {"alpha", "gamma", "defaultReward", "epsilon"}

\* The hard defaults as the claims give them.
ClaimedDefaults ==
    [alpha |-> Num(2, 1), gamma |-> Num(8, 1), defaultReward |-> Whole(0),
     epsilon |-> Num(1, 3), policy |-> Fn("greedyPolicy")]

BuiltInPolicies == {Fn(name \o "Policy") : name \in BuiltInNames}

\* A policy option that is neither one of the six names nor callable.
Unrecognized(p) ==
    /\ ~(p.k = "string" /\ p.s \in BuiltInNames)
    /\ p.k # "function"

\* The last call configured its agent with an unrecognized policy.
ConfiguredUnrecognized ==
    /\ ret.op \in {"createSARSA", "setConfig"}
    /\ "policy" \in DOMAIN ret.cfg
    /\ Unrecognized(ret.cfg["policy"])

\* The mapping a chooseAction call hands to the policy.
ChoiceMapping(c) ==
    getRewards(heap, agents[c.ag].weights, c.s0, c.list,
               agents[c.ag].config["defaultReward"])

\* C5 as stated: on construction a field not supplied has its hard default
\* and a supplied number field has the supplied value; setConfig sets the
\* number fields it is given and leaves every field it is not given,
\* the resolved policy included, as it was.
C5_AsStated ==
    /\ []((ret.op = "createSARSA" /\ nOps = 0) =>
            \A f \in Fields :
               IF f \in DOMAIN ret.cfg
               THEN f \in NumberFields => agents[1].config[f] = ret.cfg[f]
               ELSE agents[1].config[f] = ClaimedDefaults[f])
    /\ [][(ret'.op = "setConfig" /\ nOps' = nOps + 1) =>
            \A f \in Fields :
               IF f \in DOMAIN ret'.cfg
               THEN f \in NumberFields =>
                        agents'[ret'.ag].config[f] = ret'.cfg[f]
               ELSE agents'[ret'.ag].config[f] = agents[ret'.ag].config[f]
         ]_vars

\* C6 as stated: after construction or setConfig with a policy that is neither
\* one of the six names nor callable, the resolved policy is greedyPolicy and
\* a chooseAction that follows returns what greedyPolicy returns.
C6_AsStated ==
    /\ [](ConfiguredUnrecognized =>
            agents[ret.ag].config["policy"] = Fn("greedyPolicy"))
    /\ [][(ConfiguredUnrecognized /\ ret'.op = "chooseAction"
              /\ ret'.ag = ret.ag) =>
            [err |-> ret'.err, val |-> ret'.val]
                \in greedyPolicy(ChoiceMapping(ret'),
                                 agents[ret.ag].config["epsilon"], ret'.us)
         ]_vars

\* C7 as stated: getConfig returns the five fields, the number fields with
\* their current values and a policy that is callable.
C7_AsStated ==
    ret.op = "getConfig" =>
        /\ DOMAIN ret.conf = Fields
        /\ \A f \in NumberFields : ret.conf[f] = agents[ret.ag].config[f]
        /\ TypeOf(ret.conf["policy"]) = "function"

\* C8: under a built-in policy, a chooseAction whose action-value mapping is
\* empty fails with an error, returns no label, and leaves the table and the
\* configuration as they were, whatever epsilon and the draws are.
C8_EmptyThrows ==
    [][(/\ ret'.op = "chooseAction"
        /\ agents[ret'.ag].config["policy"] \in BuiltInPolicies
        /\ ChoiceMapping(ret') = <<>>)
       => /\ ret'.err
          /\ ret'.val = Str("No actions available")
          /\ UNCHANGED <<heap, agents>>
      ]_vars

\* An agent configured with epsilonGreedy and a positive epsilon drew 0, so
\* that the choice went to randomPolicy, and the empty list made it fail.
C8_Witness ==
    /\ ret.op = "chooseAction" /\ ret.list = <<>> /\ ret.err
    /\ agents[1].config["policy"] = Fn("epsilonGreedyPolicy")
    /\ agents[1].config["epsilon"] = Num(5, 1)
    /\ ret.us[1] = Whole(0)
    /\ nOps = 2

\* The first position of a list whose action has a maximal value.
FirstMax(ag, state, actionList) ==
    LET v(i) == StoredOrDefault(ag, state, actionList[i])
        best == {i \in 1..Len(actionList) :
                    \A j \in 1..Len(actionList) : ~Gt(v(j), v(i))}
    IN  CHOOSE i \in best : \A j \in best : i <= j

\* C9 as stated: under greedyPolicy chooseAction returns the first action of
\* the caller's list whose value is maximal, and the mapping lists the labels
\* in the order of the caller's list.
C9_AsStated ==
    (/\ ret.op = "chooseAction" /\ ret.list # <<>>
     /\ agents[ret.ag].config["policy"] = Fn("greedyPolicy"))
    => /\ ~ret.err
       /\ ret.val = Str(StringOf(ret.list[FirstMax(ret.ag, ret.s0, ret.list)]))
       /\ MapKeys(ChoiceMapping(ret))
              = [i \in 1..Len(ret.list) |-> StringOf(ret.list[i])]

----------------------------------------------------------------------------
(* Specification Spec: an agent and its clones.                            *)

MaxAgents == 3
MaxOps == 4

SpecConfigs == {EmptyObj, TestConfig}
SpecPartials == {[alpha |-> Num(3, 1)], [defaultReward |-> Whole(-1)]}
SpecRewards == {Whole(4), Whole(5)}

Init == \E cfg \in SpecConfigs : Create(cfg)

Next ==
    \E ag \in 1..MaxAgents :
        \/ Len(agents) < MaxAgents /\ nOps < MaxOps /\ clone(ag)
        \/ \E reward \in SpecRewards :
              /\ nOps < MaxOps
              /\ SARSAsetReward(ag, Whole(5), Str("up"), reward)
        \/ /\ nOps < MaxOps /\ Len(hist) < MaxUpdates
           /\ update(ag, Whole(5), Str("up"), Whole(10), Whole(5), Str("up"))
        \/ \E cfg \in SpecPartials : nOps < MaxOps /\ setConfig(ag, cfg)
        \/ SARSAgetRewards(ag, Whole(5), <<Str("up"), Str("down")>>)
        \/ getConfig(ag)
        \/ chooseAction(ag, Whole(5), <<Str("down"), Str("up")>>,
                        <<Whole(0), Whole(0), Whole(0)>>)

Spec == Init /\ [][Next]_vars

\* C2: a setReward, update or setConfig call on one agent leaves the
\* configuration and the table of every other agent as they were, so that no
\* later result of a method of another agent (the origin of a clone, a clone
\* of it, a sibling clone) changes.
C2_CloneIndependence ==
    [][ret'.op \in {"setReward", "update", "setConfig"} =>
          \A other \in 1..Len(agents) :
              other # ret'.ag =>
                  /\ agents'[other].config = agents[other].config
                  /\ TableOf(heap', agents'[other].weights)
                         = TableOf(heap, agents[other].weights)
      ]_vars

\* Agents 2 and 3 are clones taken after (5, up) was written, and a write to
\* that pair on one clone has made its value differ from the other agents'.
C2_Witness ==
    /\ Len(agents) = 3
    /\ ret.op \in {"setReward", "update"} /\ ret.ag # 1
    /\ \A ag \in 1..3 :
          Entry(heap, agents[ag].weights, Whole(5), Str("up")) # NoEntry
    /\ \A ag \in 1..3 :
          ag # ret.ag =>
              Entry(heap, agents[ag].weights, Whole(5), Str("up"))
                  # Entry(heap, agents[ret.ag].weights, Whole(5), Str("up"))

----------------------------------------------------------------------------
(* Specification SpecClone: an agent and one clone of it, with rewards that *)
(* JSON cannot carry.                                                      *)

MaxClones == 2
MaxCloneOps == 3

CloneConfigs ==
    {EmptyObj, [defaultReward |-> Whole(-1)], [policy |-> Fn("customPolicy")],
     [policy |-> Str("random")]}
CloneRewards == {Whole(4), NaN}
CloneLists == {<<Str("up")>>, <<Str("up"), Str("down")>>}

InitClone == \E cfg \in CloneConfigs : Create(cfg)

NextClone ==
    \E ag \in 1..MaxClones :
        \/ Len(agents) < MaxClones /\ nOps < MaxCloneOps /\ clone(ag)
        \/ \E reward \in CloneRewards :
              /\ nOps < MaxCloneOps
              /\ SARSAsetReward(ag, Whole(5), Str("up"), reward)
        \/ \E action0 \in {Str("down"), Str("constructor")} :
              /\ nOps < MaxCloneOps /\ Len(hist) < 1
              /\ update(ag, Whole(5), action0, Whole(10), Whole(5), Str("up"))
        \/ /\ nOps < MaxCloneOps
           /\ setConfig(ag, [defaultReward |-> Whole(-2)])
        \/ \E actionList \in CloneLists :
              SARSAgetRewards(ag, Whole(5), actionList)
        \/ getConfig(ag)
        \/ chooseAction(ag, Whole(5), <<Str("up"), Str("down")>>,
                        <<Whole(0), Whole(0), Whole(0)>>)

SpecClone == InitClone /\ [][NextClone]_vars

\* What agent.getRewards(state, actionList) returns, for the agents ags on
\* the heap h.
AgentRead(h, ags, ag, state, actionList) ==
    cloneJSONMap(getRewards(h, ags[ag].weights, state, actionList,
                            ags[ag].config["defaultReward"]))

\* C11 as stated: directly after c = a.clone(), c.getRewards(s, A) equals
\* a.getRewards(s, A) for every state and action list, whatever values the
\* table holds, the four number fields of c equal those of a, and c has the
\* same resolved policy as a.
C11_AsStated ==
    [][ret'.op = "clone" =>
          LET a == ret'.ag
              c == Len(agents')
          IN  /\ \A state \in {Whole(5), Whole(6)}, actionList \in CloneLists :
                    AgentRead(heap', agents', c, state, actionList)
                        = AgentRead(heap', agents', a, state, actionList)
              /\ \A f \in NumberFields :
                    agents'[c].config[f] = agents'[a].config[f]
              /\ agents'[c].config["policy"] = agents'[a].config["policy"]
      ]_vars

----------------------------------------------------------------------------
(* Specification SpecPolicy: one agent under each built-in policy, with    *)
(* values that make Math.exp overflow and underflow.                       *)

MaxPolicyOps == 2

PolicyEpsilons == {Whole(0), Num(5, 1), Whole(1)}
PolicyConfigs ==
    {[policy |-> Str(name), epsilon |-> eps] :
        name \in BuiltInNames, eps \in PolicyEpsilons}
PolicyRewards == {Whole(1), Whole(1000), Whole(-1000), NaN}
PolicyLists ==
    {<<>>, <<Str("up")>>, <<Str("up"), Str("down")>>,
     <<Str("down"), Str("up")>>}
PolicyDraws ==
    {<<Whole(0), Whole(0), Whole(0)>>, <<Whole(0), Num(5, 1), Num(5, 1)>>,
     <<Num(5, 1), Whole(0), Num(5, 1)>>, <<Num(5, 1), Num(5, 1), Num(5, 1)>>,
     <<Num(9, 1), Num(9, 1), Num(9, 1)>>}

InitPolicy == \E cfg \in PolicyConfigs : Create(cfg)

NextPolicy ==
    \/ \E action \in {Str("up"), Str("down")}, reward \in PolicyRewards :
          /\ nOps < MaxPolicyOps
          /\ SARSAsetReward(1, Whole(5), action, reward)
    \/ \E actionList \in PolicyLists, us \in PolicyDraws :
          chooseAction(1, Whole(5), actionList, us)

SpecPolicy == InitPolicy /\ [][NextPolicy]_vars

\* C12: under a built-in policy, a chooseAction whose action-value mapping is
\* not empty returns, without an error, a label that is a key of the mapping
\* and the string form of an action of the list, whatever epsilon, the draws
\* and the values are (values whose exponentials overflow or underflow
\* included).
C12_LabelOfMapping ==
    (/\ ret.op = "chooseAction"
     /\ agents[ret.ag].config["policy"] \in BuiltInPolicies
     /\ ChoiceMapping(ret) # <<>>)
    => /\ ~ret.err
       /\ ret.val.k = "string"
       /\ ret.val.s \in KeySet(ChoiceMapping(ret))
       /\ ret.val.s \in ListKeys(ret.list)

\* Under softmax the exponential of (5, up) overflowed, so that the sampling
\* loop selected nothing for the draw 0.5, and the fallback returned the
\* second label.
C12_Witness ==
    /\ ret.op = "chooseAction" /\ ~ret.err
    /\ agents[1].config["policy"] = Fn("softmaxPolicy")
    /\ Entry(heap, agents[1].weights, Whole(5), Str("up")) = Whole(1000)
    /\ ret.list = <<Str("up"), Str("down")>>
    /\ ret.us = <<Num(5, 1), Num(5, 1), Num(5, 1)>>
    /\ ret.val = Str("down")

\* C16 as stated: with epsilon = 0, epsilonGreedy, epsilonSoft and
\* epsilonGreedySoftmax return, for every mapping that is not empty and every
\* draw, the draw 0 included, the label greedyPolicy returns.
C16_AsStated ==
    (/\ ret.op = "chooseAction"
     /\ agents[ret.ag].config["epsilon"] = Whole(0)
     /\ agents[ret.ag].config["policy"]
            \in {Fn("epsilonGreedyPolicy"), Fn("epsilonSoftPolicy"),
                 Fn("epsilonGreedySoftmaxPolicy")}
     /\ ChoiceMapping(ret) # <<>>)
    => [err |-> ret.err, val |-> ret.val]
           \in greedyPolicy(ChoiceMapping(ret), Whole(0), ret.us)

----------------------------------------------------------------------------
(* Specification SpecFrame: one agent, with actions and states whose keys  *)
(* can coincide, and all the calls that read or write its table.           *)

MaxFrameOps == 2

\* The record {x: 1, y: 2}, built in the two orders of its fields.
RecXY ==
    Rec(<<[key |-> "x", val |-> Whole(1)], [key |-> "y", val |-> Whole(2)]>>)
RecYX ==
    Rec(<<[key |-> "y", val |-> Whole(2)], [key |-> "x", val |-> Whole(1)]>>)

FrameStates == {Whole(5), RecXY, RecYX}
FrameActions == {Whole(1), Str("1"), Str("constructor")}
FramePairs == FrameStates \X FrameActions

InitFrame == Create(EmptyObj)

NextFrame ==
    \/ \E state \in FrameStates, action \in FrameActions :
          /\ nOps < MaxFrameOps
          /\ SARSAsetReward(1, state, action, Whole(3))
    \/ \E state0 \in FrameStates, action1 \in {Str("1"), Str("constructor")} :
          /\ nOps < MaxFrameOps /\ Len(hist) < MaxUpdates
          /\ update(1, state0, Whole(1), Whole(10), Whole(5), action1)
    \/ nOps < MaxFrameOps /\ setConfig(1, [defaultReward |-> Whole(-1)])
    \/ \E state \in FrameStates, action \in FrameActions :
          SARSAgetRewards(1, state, <<action>>)
    \/ \E state \in FrameStates, action \in FrameActions :
          chooseAction(1, state, <<action>>, <<Whole(0), Whole(0), Whole(0)>>)

SpecFrame == InitFrame /\ [][NextFrame]_vars

\* Two values are semantically equal: the same primitive, or records with
\* the same fields and values whatever the order.
SameValue(a, b) ==
    IF a.k = "record" /\ b.k = "record"
    THEN {a.fields[i] : i \in 1..Len(a.fields)}
             = {b.fields[i] : i \in 1..Len(b.fields)}
    ELSE a = b

SamePair(state, action, state2, action2) ==
    SameValue(state, state2) /\ SameValue(action, action2)

\* The step is a call that writes the pair (state, action).
WritesPair(state, action) ==
    /\ ret'.op \in {"setReward", "update"}
    /\ SamePair(ret'.s0, ret'.a0, state, action)

\* C13 as stated: getRewards and chooseAction leave the table as it was; a
\* pair gets an entry only by a setReward or update call that names it as
\* the written pair; and a read of a pair without an entry gives the agent's
\* current defaultReward.
C13_AsStated ==
    /\ [][/\ ret'.op \in {"getRewards", "chooseAction"} =>
                TableOf(heap', agents'[1].weights)
                    = TableOf(heap, agents[1].weights)
          /\ \A pr \in FramePairs :
                (/\ Entry(heap, agents[1].weights, pr[1], pr[2]) = NoEntry
                 /\ Entry(heap', agents'[1].weights, pr[1], pr[2]) # NoEntry)
                => WritesPair(pr[1], pr[2])
         ]_vars
    /\ []((/\ ret.op = "getRewards" /\ Len(ret.list) = 1
           /\ Entry(heap, agents[ret.ag].weights, ret.s0, ret.list[1]) = NoEntry)
          => ret.map = <<[key |-> StringOf(ret.list[1]),
                          val |-> agents[ret.ag].config["defaultReward"]]>>)

\* C14 as stated: a setReward call sets the entry of every pair that is
\* semantically equal to the pair it names (a record state with its fields
\* in another order included) and leaves the entry of every other pair (the
\* action "1" for the action 1, another state) as it was.
C14_AsStated ==
    [][ret'.op = "setReward" =>
          \A pr \in FramePairs :
              Entry(heap', agents'[1].weights, pr[1], pr[2])
                  = IF SamePair(ret'.s0, ret'.a0, pr[1], pr[2]) THEN ret'.r
                    ELSE Entry(heap, agents[1].weights, pr[1], pr[2])
      ]_vars

\* C15 as stated: an update call changes what getRewards returns for no pair
\* but (s0, a0), creates no entry for (s1, a1) when that is another pair, and
\* leaves the configuration as it was.
C15_AsStated ==
    [][ret'.op = "update" =>
          /\ \A pr \in FramePairs :
                ~SamePair(ret'.s0, ret'.a0, pr[1], pr[2]) =>
                    AgentRead(heap', agents', 1, pr[1], <<pr[2]>>)
                        = AgentRead(heap, agents, 1, pr[1], <<pr[2]>>)
          /\ (/\ ~SamePair(ret'.s0, ret'.a0, ret'.s1, ret'.a1)
              /\ Entry(heap, agents[1].weights, ret'.s1, ret'.a1) = NoEntry)
             => Entry(heap', agents'[1].weights, ret'.s1, ret'.a1) = NoEntry
          /\ agents' = agents
      ]_vars

----------------------------------------------------------------------------
(* Specification SpecOptions: one agent whose options are left out, given  *)
(* as numbers, or given explicitly as undefined.                           *)

MaxOptionOps == 2

OptionInputs ==
    {EmptyObj, [alpha |-> Num(5, 1)], [alpha |-> Undefined],
     [gamma |-> Undefined, epsilon |-> Undefined],
     [defaultReward |-> Undefined], [defaultReward |-> Whole(-1)],
     [epsilon |-> Num(5, 1), gamma |-> Num(1, 1)]}

InitOptions == \E cfg \in OptionInputs : Create(cfg)

NextOptions ==
    \/ \E cfg \in OptionInputs : nOps < MaxOptionOps /\ setConfig(1, cfg)
    \/ /\ nOps < MaxOptionOps /\ Len(hist) < MaxUpdates
       /\ update(1, Whole(5), Str("up"), Whole(10), Whole(6), Str("down"))
    \/ getConfig(1)
    \/ \E actionList \in {<<Str("up")>>, <<Str("down")>>} :
          SARSAgetRewards(1, Whole(5), actionList)
    \/ \E us \in ConfigDraws :
          chooseAction(1, Whole(5), <<Str("up"), Str("down")>>, us)

SpecOptions == InitOptions /\ [][NextOptions]_vars

\* C17 as stated: whatever createSARSA and setConfig calls were made, with
\* each number option left out, a number, or undefined, the agent's alpha,
\* gamma, defaultReward and epsilon are numbers, and update returns a number.
C17_AsStated ==
    /\ \A f \in NumberFields : agents[1].config[f].k = "number"
    /\ ret.op = "update" => ret.val.k = "number"

====
